---- MODULE Spec2Model ----
(***************************************************************************)
(* Model of nicarley/documentai.                                           *)
(*                                                                         *)
(* The repository holds the application twice: the package ai_chatbot_app  *)
(* (backend.py, worker.py, gui.py, main.py) and the single-file program    *)
(* documentai.py.  Both are modelled; the variable `variant` says which    *)
(* program a behaviour is a run of ("pkg" or "mono").                      *)
(*                                                                         *)
(* Texts that the code converts character by character (file stems, the    *)
(* question, the URL field) are sequences of one-character strings.        *)
(***************************************************************************)
EXTENDS Integers, Sequences, FiniteSets, TLC

VARIABLES
    variant,                \* "pkg" (ai_chatbot_app) or "mono" (documentai.py)
    docs_folder,            \* files of ChatbotBackend.docs_folder_path
    store,                  \* directories below ChatbotBackend.vector_store_path
    ollama_base_url,        \* ChatbotBackend.ollama_base_url
    qa_chains,              \* ChatbotBackend.qa_chains (pkg)
    vector_stores,          \* ChatbotBackend.vector_stores (mono)
    send_button,            \* ChatWindow.send_button.isEnabled()
    input_box,              \* ChatWindow.input_box.isEnabled()
    current_document,       \* ChatWindow.current_document (<<>> is None)
    document_dropdown,      \* items of ChatWindow.document_dropdown
    ollama_model_dropdown,  \* ChatWindow.ollama_model_dropdown.currentText()
    workerQueue,            \* slot calls posted to the worker thread, not yet run
    pc,                     \* position of the worker thread
    cur,                    \* the slot call the worker is executing
    guiQueue,               \* worker signals posted to the GUI thread, not yet handled
    worker_question,        \* Worker.question (worker.py)
    worker_document_name,   \* Worker.document_name (worker.py)
    emitted,                \* history: signals emitted by the task last started
    last,                   \* history: the task last started
    askCalls,               \* history: ChatbotBackend.ask calls made by that task
    raised,                 \* history: the exception raised inside that task's slot
    lastCall,               \* history: the most recent ChatbotBackend.ask call
    prevCall,               \* history: the ask call right before it
    evicted,                \* history: the URLs of the chains the last URL change dropped
    accepted,               \* history: how many slot calls have been submitted
    queueIds,               \* history: the submission numbers of the calls in workerQueue
    curId,                  \* history: the submission number of the call in `cur`
    lastOwner,              \* history: the submission number of the task that emitted last
    lastOp,                 \* history: the setup_vector_stores or delete_document call just made
    thread                  \* ChatWindow.thread (the QThread the worker lives in)

vars == << variant, docs_folder, store, ollama_base_url, qa_chains, vector_stores,
           send_button, input_box, current_document, document_dropdown,
           ollama_model_dropdown, workerQueue, pc, cur, guiQueue, worker_question,
           worker_document_name, emitted, last,
           askCalls, raised, lastCall, prevCall, evicted, lastOp,
           accepted, queueIds, curId, lastOwner, thread >>

backendVars == << docs_folder, store, ollama_base_url, qa_chains, vector_stores >>
guiVars == << send_button, input_box, current_document, document_dropdown,
              ollama_model_dropdown >>
workerVars == << workerQueue, pc, cur, guiQueue >>
workerFields == << worker_question, worker_document_name >>
taskHist == << emitted, last, askCalls, raised >>
callHist == << lastCall, prevCall, evicted, lastOp >>
orderHist == << accepted, queueIds, curId, lastOwner >>

-----------------------------------------------------------------------------
(* Bounds of the model                                                     *)

MaxQueue == 2       \* slot calls waiting in the worker thread's event queue
MaxEvents == 2      \* signals waiting in the GUI thread's event queue
MaxTasks == 4       \* slot calls submitted in one run of the application

None == << >>

Stems == { <<"a">>, <<"b", "!">> }
Files == { [stem |-> <<"a">>, ext |-> ".txt"],
           [stem |-> <<"b", "!">>, ext |-> ".pdf"] }
Urls == { <<"u1">>, <<"u2">> }
\* The files a direct caller of the backend may find in the documents folder:
\* two of them share a stem.
ApiFiles == Files \cup { [stem |-> <<"a">>, ext |-> ".pdf"] }
UrlTexts == { << >>, <<" ", "u1">> }
Models == { "m1", "m2" }
DropdownModels == { "m1" }
QuestionTexts == { << >>, <<" ">>, <<"q", " ">> }
Questions == { <<"q">> }

-----------------------------------------------------------------------------
(* Text helpers                                                            *)

Whitespace == { " " }
Alnum == { "a", "b", "q", "u1", "u2" }

RECURSIVE rstrip(_)
rstrip(s) ==
    IF s = << >> THEN << >>
    ELSE IF s[Len(s)] \in Whitespace THEN rstrip(SubSeq(s, 1, Len(s) - 1))
    ELSE s

RECURSIVE lstrip(_)
lstrip(s) ==
    IF s = << >> THEN << >>
    ELSE IF Head(s) \in Whitespace THEN lstrip(Tail(s))
    ELSE s

strip(s) == lstrip(rstrip(s))

RECURSIVE KeepSafe(_)
KeepSafe(s) ==
    IF s = << >> THEN << >>
    ELSE IF Head(s) \in Alnum \cup { " ", "_", "-" }
         THEN << Head(s) >> \o KeepSafe(Tail(s))
         ELSE KeepSafe(Tail(s))

_sanitize_filename(filename) == rstrip(KeepSafe(filename))

Ord(c) ==
    CASE c = " " -> 32
      [] c = "!" -> 33
      [] c = "a" -> 97
      [] c = "b" -> 98
      [] OTHER -> 113

RECURSIVE Less(_, _)
Less(s, t) ==
    IF t = << >> THEN FALSE
    ELSE IF s = << >> THEN TRUE
    ELSE IF Head(s) = Head(t) THEN Less(Tail(s), Tail(t))
    ELSE Ord(Head(s)) < Ord(Head(t))

RECURSIVE sorted(_)
sorted(S) ==
    IF S = {} THEN << >>
    ELSE LET m == CHOOSE x \in S : \A y \in S \ {x} : Less(x, y)
         IN << m >> \o sorted(S \ {m})

Perms(S) ==
    { p \in [1..Cardinality(S) -> S] : \A x \in S : \E i \in DOMAIN p : p[i] = x }

-----------------------------------------------------------------------------
(* ChatbotBackend                                                          *)

EmptyMap == [d \in {} |-> None]

Put(f, k, v) == [d \in DOMAIN f \cup {k} |-> IF d = k THEN v ELSE f[d]]

Drop(f, k) == [d \in DOMAIN f \ {k} |-> f[d]]

SupportedExts == << ".pdf", ".docx", ".txt", ".xls", ".xlsx" >>

Supported == { SupportedExts[i] : i \in DOMAIN SupportedExts }

\* The first extension, in the order the code tries them, for which
\* docs_folder_path / (name + ext) exists; "" when there is none.
FirstExt(folder, name) ==
    LET hits == { i \in DOMAIN SupportedExts :
                     [stem |-> name, ext |-> SupportedExts[i]] \in folder }
    IN IF hits = {} THEN ""
       ELSE SupportedExts[CHOOSE i \in hits : \A j \in hits : i <= j]

\* backend.py: vector_store_path / document_name, the name used as it is.
get_vector_store_for_document(document_name) == document_name

\* backend.py: the sorted, duplicate-free stems of the supported files.
get_available_documents_pkg(folder) ==
    sorted({ f.stem : f \in { g \in folder : g.ext \in Supported } })

\* documentai.py: the stems of all files, in the order iterdir yields them
\* (an order the operating system chooses: `order` is one enumeration).
get_available_documents_mono(order) ==
    [i \in DOMAIN order |-> order[i].stem]

\* documentai.py: the loader of the first existing supported file, or "None".
_get_loader_for_document(folder, doc_name) ==
    LET ext == FirstExt(folder, doc_name)
    IN IF ext = "" THEN "None" ELSE ext

\* setup_vector_stores given up at the first document whose build fails.
setup_vector_stores_aborts(folder, st, ok) ==
    LET doc_files == { f \in folder : f.ext \in Supported }
        todo == { g \in doc_files : get_vector_store_for_document(g.stem) \notin st }
    IN IF todo \subseteq ok
       THEN st \cup { get_vector_store_for_document(f.stem) : f \in todo }
       ELSE st

\* backend.py setup_vector_stores.  `ok` is the set of files whose load, split,
\* embed and save all succeed in this pass.
setup_vector_stores_pkg(folder, st, ok) ==
    LET doc_files == { f \in folder : f.ext \in Supported }
    IN IF doc_files = {} THEN st
       ELSE st \cup { get_vector_store_for_document(f.stem) :
                        f \in { g \in doc_files :
                                  /\ get_vector_store_for_document(g.stem) \notin st
                                  /\ g \in ok } }


\* documentai.py setup_vector_stores, the loop over document_names.  `ok` is the
\* set of names whose build succeeds, `loadok` the set whose FAISS.load_local
\* succeeds.  The result is the pair of the store and self.vector_stores.
RECURSIVE setup_loop_mono(_, _, _, _, _, _, _)
setup_loop_mono(names, folder, st, vs, url, ok, loadok) ==
    IF names = << >> THEN [store |-> st, vector_stores |-> vs]
    ELSE
      LET doc_name == Head(names)
          faiss_index_path == _sanitize_filename(doc_name)
          handle == [embed_url |-> url]
      IN IF faiss_index_path \in st
         THEN setup_loop_mono(Tail(names), folder, st,
                  IF doc_name \in loadok THEN Put(vs, doc_name, handle) ELSE vs,
                  url, ok, loadok)
         ELSE IF _get_loader_for_document(folder, doc_name) # "None" /\ doc_name \in ok
              THEN setup_loop_mono(Tail(names), folder, st \cup {faiss_index_path},
                       Put(vs, doc_name, handle), url, ok, loadok)
              ELSE setup_loop_mono(Tail(names), folder, st, vs, url, ok, loadok)

setup_vector_stores_mono(order, folder, st, url, ok, loadok) ==
    setup_loop_mono(get_available_documents_mono(order), folder, st, EmptyMap,
                    url, ok, loadok)

\* update_ollama_url without the clearing of the cache.
update_ollama_url_keeps_chains(chains, new_url) ==
    [ollama_base_url |-> new_url, qa_chains |-> chains]

\* backend.py update_ollama_url: the new URL, and the cache cleared.
update_ollama_url_pkg(chains, new_url) ==
    [ollama_base_url |-> new_url, qa_chains |-> EmptyMap]

\* documentai.py update_ollama_url: the new URL only.
update_ollama_url_mono(new_url) == new_url

NoChain == [url |-> None, model |-> "", k |-> 0]

\* The number of chunks a retriever fetches when as_retriever() is given no
\* search_kwargs: the vector store's own default.
DefaultK == 4

Text(msg, q, d, m, u) ==
    [msg |-> msg, question |-> q, document_name |-> d, model |-> m, url |-> u]

\* What a chain's invoke returns: the answer of the model the chain is bound to.
Invoke(chain, q, d) == Text("answer", q, d, chain.model, chain.url)

Return(text) == [kind |-> "return", text |-> text, exc |-> ""]

Raise(exc) == [kind |-> "raise", text |-> Text("", None, None, "", None), exc |-> exc]

\* setup_qa_chain with the cache entry written before the index is looked up.
setup_qa_chain_caches_first(chains, st, url, document_name, ollama_model, loadok) ==
    LET llm == [url |-> url, model |-> ollama_model, k |-> 3]
    IN IF get_vector_store_for_document(document_name) \notin st
       THEN [raised |-> "ValueError", qa_chains |-> Put(chains, document_name, llm)]
       ELSE IF ~loadok
       THEN [raised |-> "LoadError", qa_chains |-> Put(chains, document_name, llm)]
       ELSE [raised |-> "", qa_chains |-> Put(chains, document_name, llm)]

\* backend.py setup_qa_chain.  `loadok`: FAISS.load_local succeeds.  The chain
\* is recorded by the LLM it is bound to and the width k of its retriever.
setup_qa_chain(chains, st, url, document_name, ollama_model, loadok) ==
    LET llm == [url |-> url, model |-> ollama_model, k |-> 3]
    IN IF get_vector_store_for_document(document_name) \notin st
       THEN [raised |-> "ValueError", qa_chains |-> chains]
       ELSE IF ~loadok
       THEN [raised |-> "LoadError", qa_chains |-> chains]
       ELSE [raised |-> "", qa_chains |-> Put(chains, document_name, llm)]

\* backend.py ask.  built: a RetrievalQA was constructed by this call;
\* chain: the chain that was invoked.
ask_pkg(chains, st, url, up, question, document_name, ollama_model, loadok) ==
    LET hit == document_name \in DOMAIN chains
        made == IF hit THEN [raised |-> "", qa_chains |-> chains]
                ELSE setup_qa_chain(chains, st, url, document_name, ollama_model, loadok)
    IN IF made.raised # ""
       THEN [qa_chains |-> made.qa_chains, built |-> FALSE, chain |-> NoChain,
             out |-> Raise(made.raised)]
       ELSE IF document_name \notin DOMAIN made.qa_chains
       THEN [qa_chains |-> made.qa_chains, built |-> ~hit, chain |-> NoChain,
             out |-> Return(Text("not initialized", question, document_name, "", None))]
       ELSE LET qa_chain == made.qa_chains[document_name]
            IN [qa_chains |-> made.qa_chains, built |-> ~hit, chain |-> qa_chain,
                out |-> IF up THEN Return(Invoke(qa_chain, question, document_name))
                        ELSE Raise("ProviderFailure")]

\* documentai.py ask: no cache, a chain is constructed by every call that finds
\* the document in self.vector_stores.
ask_mono(vs, url, up, question, document_name, ollama_model) ==
    IF document_name \notin DOMAIN vs
    THEN [built |-> FALSE, chain |-> NoChain,
          out |-> Return(Text("not ready", question, document_name, "", None))]
    ELSE LET qa_chain == [url |-> url, model |-> ollama_model, k |-> DefaultK]
         IN [built |-> TRUE, chain |-> qa_chain,
             out |-> IF up THEN Return(Invoke(qa_chain, question, document_name))
                     ELSE Raise("ProviderFailure")]

\* backend.py delete_document.  `fails`: how many rmtree attempts fail.
delete_document_pkg(folder, st, chains, document_name, fails) ==
    LET ext == FirstExt(folder, document_name)
        folder2 == IF ext = "" THEN folder
                   ELSE folder \ { [stem |-> document_name, ext |-> ext] }
        vector_store_path == get_vector_store_for_document(document_name)
    IN IF vector_store_path \in st /\ fails > 0
       THEN [docs_folder |-> folder2, store |-> st, qa_chains |-> chains,
             raised |-> "OSError", attempts |-> 1, failed |-> 1]
       ELSE [docs_folder |-> folder2, store |-> st \ {vector_store_path},
             qa_chains |-> Drop(chains, document_name), raised |-> "",
             attempts |-> IF vector_store_path \in st THEN 1 ELSE 0, failed |-> 0]

\* documentai.py delete_document: one retry of rmtree, its errors ignored.
delete_document_mono(folder, st, vs, document_name, fails) ==
    LET sanitized_name == _sanitize_filename(document_name)
        ext == FirstExt(folder, document_name)
        folder2 == IF ext = "" THEN folder
                   ELSE folder \ { [stem |-> document_name, ext |-> ext] }
    IN [docs_folder |-> folder2,
        store |-> IF sanitized_name \in st /\ fails >= 2 THEN st
                  ELSE st \ {sanitized_name},
        vector_stores |-> Drop(vs, document_name), raised |-> "",
        attempts |-> IF sanitized_name \notin st THEN 0
                     ELSE IF fails >= 1 THEN 2 ELSE 1,
        failed |-> IF sanitized_name \notin st THEN 0
                   ELSE IF fails >= 2 THEN 2 ELSE fails]

-----------------------------------------------------------------------------
(* Tasks and signals                                                       *)

SetupTask == [kind |-> "Setup", question |-> None, document_name |-> None,
              ollama_model |-> ""]

AskTask(q, d, m) == [kind |-> "Ask", question |-> q, document_name |-> d,
                     ollama_model |-> m]

NoText == Text("", None, None, "", None)

StatusInit == [kind |-> "status", text |-> Text("Initializing knowledge base", None, None, "", None)]
StatusReady == [kind |-> "status", text |-> Text("Vector stores are ready.", None, None, "", None)]
ResultEvent(text) == [kind |-> "result", text |-> text]
ErrorEvent(exc) == [kind |-> "error", text |-> Text(exc, None, None, "", None)]
FinishedEvent == [kind |-> "finished", text |-> NoText]

\* What the task last started met: whether its document's storage location
\* existed and the endpoint answered when its body ran, and the arguments of
\* the ChatbotBackend.ask call it made.
TaskInfo(task, indexed, up, args) ==
    [task |-> task, indexed |-> indexed, up |-> up, args |-> args]

NoArgs == AskTask(None, None, "")

\* The value of `cur` before the worker has taken up any call.
NoTask == [kind |-> "none", question |-> None, document_name |-> None,
           ollama_model |-> ""]

\* The storage location the variant derives from a document name.
StorageLocation(v, name) ==
    IF v = "pkg" THEN get_vector_store_for_document(name)
    ELSE _sanitize_filename(name)

\* db.save_local(path) inside the try block, with no clean-up in the except
\* clause: a save that fails after it created the directory leaves the
\* directory.  `ok` is the set of files whose build succeeds and `st` the
\* store at the end of the pass; the result is the set of locations that the
\* failed builds of the pass may have left behind.
save_local_leftovers(v, folder, st, ok) ==
    { StorageLocation(v, f.stem) : f \in { g \in folder \ ok : g.ext \in Supported } }
        \ st

-----------------------------------------------------------------------------
(* Worker (worker thread): Qt runs the queued slot calls one at a time     *)

\* setup_backend run for the call submitted last instead of the one submitted
\* first.
setup_backend_begin_newest ==
    /\ thread.state # "finished"
    /\ pc = "idle"
    /\ workerQueue # << >>
    /\ workerQueue[Len(workerQueue)].kind = "Setup"
    /\ Len(guiQueue) < MaxEvents
    /\ cur' = workerQueue[Len(workerQueue)]
    /\ workerQueue' = SubSeq(workerQueue, 1, Len(workerQueue) - 1)
    /\ pc' = "setup_call"
    /\ guiQueue' = Append(guiQueue, StatusInit)
    /\ emitted' = << StatusInit >>
    /\ last' = TaskInfo(workerQueue[Len(workerQueue)], FALSE, TRUE, NoArgs)
    /\ askCalls' = 0
    /\ raised' = ""
    /\ curId' = queueIds[Len(queueIds)]
    /\ queueIds' = SubSeq(queueIds, 1, Len(queueIds) - 1)
    /\ lastOwner' = queueIds[Len(queueIds)]
    /\ UNCHANGED << variant, backendVars, guiVars, workerFields, thread, callHist, accepted >>

\* setup_backend, up to its first status signal.
setup_backend_begin ==
    /\ thread.state # "finished"
    /\ pc = "idle"
    /\ workerQueue # << >>
    /\ Head(workerQueue).kind = "Setup"
    /\ Len(guiQueue) < MaxEvents
    /\ cur' = Head(workerQueue)
    /\ workerQueue' = Tail(workerQueue)
    /\ pc' = "setup_call"
    /\ guiQueue' = Append(guiQueue, StatusInit)
    /\ emitted' = << StatusInit >>
    /\ last' = TaskInfo(Head(workerQueue), FALSE, TRUE, NoArgs)
    /\ askCalls' = 0
    /\ raised' = ""
    /\ curId' = Head(queueIds)
    /\ queueIds' = Tail(queueIds)
    /\ lastOwner' = Head(queueIds)
    /\ UNCHANGED << variant, backendVars, guiVars, workerFields, thread, callHist, accepted >>

\* setup_backend without the except clause: the exception of
\* setup_vector_stores leaves the slot, no error is emitted.
setup_backend_call_uncaught ==
    /\ pc = "setup_call"
    /\ Len(guiQueue) < MaxEvents
    /\ pc' = "setup_finished"
    /\ \/ /\ \E ok \in SUBSET docs_folder :
                IF variant = "pkg"
                THEN /\ LET st == setup_vector_stores_pkg(docs_folder, store, ok)
                        IN \E left \in SUBSET save_local_leftovers(variant, docs_folder,
                                                                   st, ok) :
                              store' = st \cup left
                     /\ UNCHANGED vector_stores
                ELSE \E order \in Perms(docs_folder), loadok \in SUBSET Stems :
                        LET r == setup_vector_stores_mono(order, docs_folder, store,
                                     ollama_base_url, { f.stem : f \in ok }, loadok)
                        IN /\ \E left \in SUBSET save_local_leftovers(variant,
                                                      docs_folder, r.store, ok) :
                                 store' = r.store \cup left
                           /\ vector_stores' = r.vector_stores
          /\ guiQueue' = Append(guiQueue, StatusReady)
          /\ emitted' = Append(emitted, StatusReady)
          /\ raised' = ""
       \/ /\ guiQueue' = guiQueue
          /\ emitted' = emitted
          /\ raised' = "OSError"
          /\ IF variant = "pkg" THEN UNCHANGED vector_stores
             ELSE vector_stores' = EmptyMap
          /\ UNCHANGED store
    /\ lastOwner' = curId
    /\ UNCHANGED << variant, docs_folder, ollama_base_url, qa_chains, guiVars,
                    workerQueue, cur, workerFields, thread, last, askCalls, callHist,
                    accepted, queueIds, curId >>

\* setup_backend: backend.setup_vector_stores() and the signal that follows it,
\* the second status or, when the call raised, error.
setup_backend_call ==
    /\ pc = "setup_call"
    /\ Len(guiQueue) < MaxEvents
    /\ pc' = "setup_finished"
    /\ \/ /\ \E ok \in SUBSET docs_folder :
                IF variant = "pkg"
                THEN /\ LET st == setup_vector_stores_pkg(docs_folder, store, ok)
                        IN \E left \in SUBSET save_local_leftovers(variant, docs_folder,
                                                                   st, ok) :
                              store' = st \cup left
                     /\ UNCHANGED vector_stores
                ELSE \E order \in Perms(docs_folder), loadok \in SUBSET Stems :
                        LET r == setup_vector_stores_mono(order, docs_folder, store,
                                     ollama_base_url, { f.stem : f \in ok }, loadok)
                        IN /\ \E left \in SUBSET save_local_leftovers(variant,
                                                      docs_folder, r.store, ok) :
                                 store' = r.store \cup left
                           /\ vector_stores' = r.vector_stores
          /\ guiQueue' = Append(guiQueue, StatusReady)
          /\ emitted' = Append(emitted, StatusReady)
          /\ raised' = ""
       \/ /\ guiQueue' = Append(guiQueue, ErrorEvent("OSError"))
          /\ emitted' = Append(emitted, ErrorEvent("OSError"))
          /\ raised' = "OSError"
          /\ IF variant = "pkg" THEN UNCHANGED vector_stores
             ELSE vector_stores' = EmptyMap
          /\ UNCHANGED store
    /\ lastOwner' = curId
    /\ UNCHANGED << variant, docs_folder, ollama_base_url, qa_chains, guiVars,
                    workerQueue, cur, workerFields, thread, last, askCalls, callHist,
                    accepted, queueIds, curId >>

\* setup_backend with finished emitted before the last status.
setup_backend_finished_first ==
    /\ pc = "setup_finished"
    /\ pc' = "idle"
    /\ cur' = NoTask
    /\ emitted' = SubSeq(emitted, 1, Len(emitted) - 1)
                     \o << FinishedEvent, emitted[Len(emitted)] >>
    /\ lastOwner' = curId
    /\ UNCHANGED << variant, backendVars, guiVars, workerQueue, guiQueue,
                    workerFields, thread, last, askCalls, raised, callHist, accepted, queueIds,
                    curId >>

\* setup_backend: finished is emitted and the slot returns.
setup_backend_finished ==
    /\ pc = "setup_finished"
    /\ pc' = "idle"
    /\ cur' = NoTask
    /\ emitted' = Append(emitted, FinishedEvent)
    /\ lastOwner' = curId
    /\ UNCHANGED << variant, backendVars, guiVars, workerQueue, guiQueue,
                    workerFields, thread, last, askCalls, raised, callHist, accepted, queueIds,
                    curId >>

\* ask_question entered while another slot call is still running.
ask_question_begin_preempts ==
    /\ workerQueue # << >>
    /\ Head(workerQueue).kind = "Ask"
    /\ cur' = Head(workerQueue)
    /\ workerQueue' = Tail(workerQueue)
    /\ pc' = "ask_call"
    /\ emitted' = << >>
    /\ last' = TaskInfo(Head(workerQueue), FALSE, TRUE, NoArgs)
    /\ askCalls' = 0
    /\ raised' = ""
    /\ curId' = Head(queueIds)
    /\ queueIds' = Tail(queueIds)
    /\ UNCHANGED << variant, backendVars, guiVars, guiQueue, workerFields, thread,
                    callHist, accepted, lastOwner >>

\* The queued call of ask_question is taken up.
ask_question_begin ==
    /\ thread.state # "finished"
    /\ pc = "idle"
    /\ workerQueue # << >>
    /\ Head(workerQueue).kind = "Ask"
    /\ cur' = Head(workerQueue)
    /\ workerQueue' = Tail(workerQueue)
    /\ pc' = "ask_call"
    /\ emitted' = << >>
    /\ last' = TaskInfo(Head(workerQueue), FALSE, TRUE, NoArgs)
    /\ askCalls' = 0
    /\ raised' = ""
    /\ curId' = Head(queueIds)
    /\ queueIds' = Tail(queueIds)
    /\ UNCHANGED << variant, backendVars, guiVars, guiQueue, workerFields, thread,
                    callHist, accepted, lastOwner >>

\* worker.py ask_question: a slot without parameters, so the signal's three
\* arguments are dropped and the body reads self.question and
\* self.document_name; finished is emitted last.
ask_question_pkg ==
    /\ pc = "ask_call"
    /\ variant = "pkg"
    /\ Len(guiQueue) < MaxEvents
    /\ pc' = "idle"
    /\ cur' = NoTask
    /\ \E llm_up \in BOOLEAN :
       LET indexed == StorageLocation(variant, cur.document_name) \in store
       IN IF worker_question # None /\ worker_document_name # None
          THEN \* backend.ask(question, document_name): the third argument is missing
               /\ guiQueue' = Append(guiQueue, ErrorEvent("TypeError"))
               /\ emitted' = << ErrorEvent("TypeError"), FinishedEvent >>
               /\ last' = TaskInfo(cur, indexed, llm_up, NoArgs)
               /\ raised' = "TypeError"
          ELSE /\ guiQueue' = guiQueue
               /\ emitted' = << FinishedEvent >>
               /\ last' = TaskInfo(cur, indexed, llm_up, NoArgs)
               /\ raised' = ""
    /\ lastOwner' = curId
    /\ UNCHANGED << variant, backendVars, guiVars, workerQueue, workerFields, thread, askCalls,
                    callHist, accepted, queueIds, curId >>

\* documentai.py ask_question(question, document_name, ollama_model): result or
\* error, and the slot returns; no finished is emitted.
ask_question_mono ==
    /\ pc = "ask_call"
    /\ variant = "mono"
    /\ Len(guiQueue) < MaxEvents
    /\ pc' = "idle"
    /\ cur' = NoTask
    /\ \E llm_up \in BOOLEAN :
       LET indexed == StorageLocation(variant, cur.document_name) \in store
       IN IF cur.question # None /\ cur.document_name # None
          THEN LET r == ask_mono(vector_stores, ollama_base_url, llm_up, cur.question,
                                 cur.document_name, cur.ollama_model)
                   ev == IF r.out.kind = "return" THEN ResultEvent(r.out.text)
                         ELSE ErrorEvent(r.out.exc)
               IN /\ guiQueue' = Append(guiQueue, ev)
                  /\ emitted' = << ev >>
                  /\ lastOwner' = curId
                  /\ askCalls' = askCalls + 1
                  /\ raised' = IF r.out.kind = "raise" THEN r.out.exc ELSE ""
                  /\ last' = TaskInfo(cur, indexed, llm_up,
                                 AskTask(cur.question, cur.document_name, cur.ollama_model))
          ELSE /\ guiQueue' = guiQueue
               /\ emitted' = << >>
               /\ askCalls' = askCalls
               /\ raised' = ""
               /\ last' = TaskInfo(cur, indexed, llm_up, NoArgs)
               /\ lastOwner' = lastOwner
    /\ UNCHANGED << variant, backendVars, guiVars, workerQueue, workerFields, thread,
                    callHist, accepted, queueIds, curId >>

-----------------------------------------------------------------------------
(* ChatWindow (interactive thread): each handler runs to its end           *)

\* reload_ai as the last statement of another handler: both inputs disabled,
\* setup_backend_signal emitted (a queued call of Worker.setup_backend).
ReloadEffect ==
    /\ send_button' = FALSE
    /\ input_box' = FALSE
    /\ workerQueue' = Append(workerQueue, SetupTask)
    /\ accepted' = accepted + 1
    /\ queueIds' = Append(queueIds, accepted + 1)

\* The handler ends without a submission.
NoSubmission == UNCHANGED << send_button, input_box, workerQueue, accepted, queueIds >>

\* The model follows the application up to MaxTasks submissions, with at most
\* MaxQueue of them waiting.
MaySubmit == Len(workerQueue) < MaxQueue /\ accepted < MaxTasks

\* The "Reload AI" button.
reload_ai ==
    /\ thread.state = "running"
    /\ MaySubmit
    /\ ReloadEffect
    /\ UNCHANGED << taskHist, curId, lastOwner, variant, backendVars, current_document, document_dropdown,
                    ollama_model_dropdown, pc, cur, guiQueue, workerFields, thread,
                    callHist >>

\* send_message, run by send_button.clicked or input_box.returnPressed; a
\* disabled widget emits neither.
send_message ==
    /\ thread.state = "running"
    /\ send_button \/ input_box
    /\ MaySubmit
    /\ \E text \in QuestionTexts :
          LET question == strip(text)
          IN IF current_document = None \/ question = << >>
             THEN NoSubmission
             ELSE /\ workerQueue' = Append(workerQueue,
                        AskTask(question, current_document, ollama_model_dropdown))
                  /\ accepted' = accepted + 1
                  /\ queueIds' = Append(queueIds, accepted + 1)
                  /\ send_button' = FALSE
                  /\ input_box' = FALSE
    /\ UNCHANGED << taskHist, curId, lastOwner, variant, backendVars, current_document, document_dropdown,
                    ollama_model_dropdown, pc, cur, guiQueue, workerFields, thread,
                    callHist >>

\* upload_document with a file chosen and copied (a cancelled dialog or a
\* failed copy changes nothing).
upload_document ==
    /\ thread.state = "running"
    /\ MaySubmit
    /\ \E f \in Files : docs_folder' = docs_folder \cup {f}
    /\ ReloadEffect
    /\ UNCHANGED << taskHist, curId, lastOwner, variant, store, ollama_base_url, qa_chains, vector_stores,
                    current_document, document_dropdown, ollama_model_dropdown, pc, cur,
                    guiQueue, workerFields, thread, callHist >>

\* delete_document, answered Yes: backend.delete_document on this thread, then
\* reload_ai unless the call raised.
delete_document ==
    /\ thread.state = "running"
    /\ MaySubmit
    /\ current_document # None
    /\ \E fails \in 0..2 :
          IF variant = "pkg"
          THEN LET r == delete_document_pkg(docs_folder, store, qa_chains,
                                            current_document, fails)
               IN /\ docs_folder' = r.docs_folder
                  /\ store' = r.store
                  /\ qa_chains' = r.qa_chains
                  /\ UNCHANGED vector_stores
                  /\ IF r.raised = "" THEN ReloadEffect
                     ELSE NoSubmission
          ELSE LET r == delete_document_mono(docs_folder, store, vector_stores,
                                             current_document, fails)
               IN /\ docs_folder' = r.docs_folder
                  /\ store' = r.store
                  /\ vector_stores' = r.vector_stores
                  /\ UNCHANGED qa_chains
                  /\ ReloadEffect
    /\ UNCHANGED << taskHist, curId, lastOwner, variant, ollama_base_url, current_document, document_dropdown,
                    ollama_model_dropdown, pc, cur, guiQueue, workerFields, thread,
                    callHist >>

\* save_settings: backend.update_ollama_url on this thread, then the settings
\* file is written and, when that succeeded, reload_ai.
save_settings ==
    /\ thread.state = "running"
    /\ MaySubmit
    /\ \E text \in UrlTexts, written \in BOOLEAN :
          LET new_url == strip(text)
              selected_model == ollama_model_dropdown
          IN IF new_url # << >> /\ selected_model # ""
             THEN /\ IF variant = "pkg"
                     THEN LET r == update_ollama_url_pkg(qa_chains, new_url)
                          IN /\ ollama_base_url' = r.ollama_base_url
                             /\ qa_chains' = r.qa_chains
                     ELSE /\ ollama_base_url' = update_ollama_url_mono(new_url)
                          /\ UNCHANGED qa_chains
                  /\ IF written THEN ReloadEffect
                     ELSE NoSubmission
             ELSE UNCHANGED ollama_base_url /\ UNCHANGED qa_chains /\ NoSubmission
    /\ UNCHANGED << taskHist, curId, lastOwner, variant, docs_folder, store, vector_stores, current_document,
                    document_dropdown, ollama_model_dropdown, pc, cur, guiQueue,
                    workerFields, thread, callHist >>

\* The user picks an item of document_dropdown (currentTextChanged).
set_current_document ==
    /\ thread.state = "running"
    /\ \E i \in DOMAIN document_dropdown :
          /\ document_dropdown[i] # current_document
          /\ current_document' = document_dropdown[i]
    /\ UNCHANGED << taskHist, orderHist, variant, backendVars, send_button, input_box,
                    document_dropdown, ollama_model_dropdown, workerVars, workerFields, thread, callHist >>

\* populate_documents_dropdown, as called by update_status.
PopulateEffect ==
    \E order \in Perms(docs_folder) :
       LET documents == IF variant = "pkg" THEN get_available_documents_pkg(docs_folder)
                        ELSE get_available_documents_mono(order)
       IN /\ document_dropdown' = documents
          /\ current_document' = IF documents # << >> THEN documents[1] ELSE None

\* update_status, the slot of the status signal.
update_status ==
    /\ thread.state = "running"
    /\ guiQueue # << >>
    /\ Head(guiQueue).kind = "status"
    /\ guiQueue' = Tail(guiQueue)
    /\ IF Head(guiQueue) = StatusReady
       THEN /\ PopulateEffect
            /\ send_button' = TRUE
            /\ input_box' = TRUE
       ELSE UNCHANGED << current_document, document_dropdown, send_button, input_box >>
    /\ UNCHANGED << variant, backendVars, ollama_model_dropdown, workerQueue, pc,
                    cur, workerFields, thread, taskHist, callHist, orderHist >>

\* handle_ai_response, the slot of the result signal.
handle_ai_response ==
    /\ thread.state = "running"
    /\ guiQueue # << >>
    /\ Head(guiQueue).kind = "result"
    /\ guiQueue' = Tail(guiQueue)
    /\ send_button' = TRUE
    /\ input_box' = TRUE
    /\ UNCHANGED << variant, backendVars, current_document, document_dropdown,
                    ollama_model_dropdown, workerQueue, pc, cur, workerFields, thread, taskHist,
                    callHist, orderHist >>

\* handle_error, the slot of the error signal.
handle_error ==
    /\ thread.state = "running"
    /\ guiQueue # << >>
    /\ Head(guiQueue).kind = "error"
    /\ guiQueue' = Tail(guiQueue)
    /\ send_button' = TRUE
    /\ input_box' = TRUE
    /\ UNCHANGED << variant, backendVars, current_document, document_dropdown,
                    ollama_model_dropdown, workerQueue, pc, cur, workerFields, thread, taskHist,
                    callHist, orderHist >>

\* self.thread.start(): the worker thread runs its event loop.  `task` is the
\* submission number of the slot call that was running when closeEvent
\* called quit (0: none was).
Started == [state |-> "running", task |-> 0]

\* closeEvent, up to thread.wait(): quit() asks the worker thread's event loop
\* to exit, and the interactive thread blocks in wait().
closeEvent ==
    /\ thread.state = "running"
    /\ thread' = [state |-> "quit", task |-> IF pc = "idle" THEN 0 ELSE curId]
    /\ UNCHANGED << variant, backendVars, guiVars, workerVars, workerFields, taskHist,
                    callHist, orderHist >>

\* The event loop of the worker thread exits once control is back in it, that
\* is when no slot call is running; wait() returns, the window closes and the
\* slot calls still queued are never run.
thread_finished ==
    /\ thread.state = "quit"
    /\ pc = "idle"
    /\ thread' = [thread EXCEPT !.state = "finished"]
    /\ UNCHANGED << variant, backendVars, guiVars, workerVars, workerFields, taskHist,
                    callHist, orderHist >>

-----------------------------------------------------------------------------
(* The application: main() has built the backend and the window            *)

NoCall == [kind |-> "none", document_name |-> None, ollama_model |-> "", url |-> None,
           built |-> FALSE, chain |-> NoChain, out |-> Raise(""), dropped |-> None]

\* What is kept of the ask call before the last one.
NoPrev == [kind |-> "none", document_name |-> None, ollama_model |-> "", url |-> None,
           cached |-> FALSE, answered |-> FALSE]

Answered(call) == call.out.kind = "return" /\ call.out.text.msg = "answer"

Summary(call) ==
    IF call.kind = "none" THEN NoPrev
    ELSE [kind |-> "call", document_name |-> call.document_name,
          ollama_model |-> call.ollama_model, url |-> call.url,
          cached |-> call.chain # NoChain, answered |-> Answered(call)]

\* None of setup_vector_stores, delete_document and open_selected_file has just
\* been called.
NoOp == [kind |-> "none", document_name |-> None, raised |-> "", listed |-> FALSE,
         runs |-> 0, built |-> {}, complete |-> FALSE, attempts |-> 0, failed |-> 0,
         file |-> "", response |-> "", models |-> << >>]

\* A delete_document(name) call: what it returned (the exception it raised, ""
\* when it returned normally; the rmtree attempts it made and how many of
\* them failed) and whether name was listed when it was made.
DeleteOp(name, r, listed) ==
    [NoOp EXCEPT !.kind = "delete", !.document_name = name, !.raised = r.raised,
                 !.listed = listed, !.attempts = r.attempts, !.failed = r.failed]

\* A pass that builds the index of a document whose storage location exists.
builds_existing(v, folder, st, ok) ==
    { StorageLocation(v, f.stem) : f \in { g \in folder : g.ext \in Supported /\ g \in ok } }

\* The storage locations a setup_vector_stores pass builds (FAISS.from_documents
\* and save_local run): the else branch of the exists() test, for the files
\* in `ok`, whose build succeeds.
builds(v, folder, st, ok) ==
    { StorageLocation(v, f.stem) :
        f \in { g \in folder : /\ g.ext \in Supported
                               /\ g \in ok
                               /\ StorageLocation(v, g.stem) \notin st } }

\* Every document setup_vector_stores would index has its storage location.
AllIndexed(v, folder, st) ==
    \A f \in folder : f.ext \in Supported => StorageLocation(v, f.stem) \in st

\* A setup_vector_stores() call: the first or the second of a run of such calls
\* (with nothing in between), the locations it built, and whether every
\* document had its location when it started.
SetupOp(before, built, complete) ==
    [NoOp EXCEPT !.kind = "setup", !.runs = IF before.kind = "setup" THEN 2 ELSE 1,
                 !.built = built, !.complete = complete]

\* get_available_documents() contains name.
Listed(v, folder, name) ==
    IF v = "pkg"
    THEN LET documents == get_available_documents_pkg(folder)
         IN \E i \in DOMAIN documents : documents[i] = name
    ELSE \E order \in Perms(folder) :
            LET documents == get_available_documents_mono(order)
            IN \E i \in DOMAIN documents : documents[i] = name

Init ==
    /\ variant \in { "pkg", "mono" }
    /\ docs_folder \in SUBSET Files
    /\ store = {}
    /\ ollama_base_url = <<"u1">>
    /\ qa_chains = EmptyMap
    /\ vector_stores = EmptyMap
    /\ send_button = FALSE
    /\ input_box = FALSE
    /\ current_document = None
    /\ document_dropdown = << >>
    /\ ollama_model_dropdown \in DropdownModels
    /\ workerQueue = << SetupTask >>
    /\ pc = "idle"
    /\ cur = NoTask
    /\ guiQueue = << >>
    /\ worker_question = None
    /\ worker_document_name = None
    /\ emitted = << >>
    /\ last = TaskInfo(NoTask, FALSE, TRUE, NoArgs)
    /\ askCalls = 0
    /\ raised = ""
    /\ lastCall = NoCall
    /\ prevCall = NoPrev
    /\ evicted = EmptyMap
    /\ lastOp = NoOp
    /\ accepted = 1
    /\ queueIds = << 1 >>
    /\ curId = 0
    /\ lastOwner = 0
    /\ thread = Started

Next ==
    \/ setup_backend_begin
    \/ setup_backend_call
    \/ setup_backend_finished
    \/ ask_question_begin
    \/ ask_question_pkg
    \/ ask_question_mono
    \/ reload_ai
    \/ send_message
    \/ upload_document
    \/ delete_document
    \/ save_settings
    \/ set_current_document
    \/ update_status
    \/ handle_ai_response
    \/ handle_error
    \/ closeEvent
    \/ thread_finished

Spec == Init /\ [][Next]_vars

-----------------------------------------------------------------------------
(* The backend called directly: ChatbotBackend's methods, one call at a    *)
(* time, by a caller that holds the backend object                         *)

InitApi ==
    /\ variant \in { "pkg", "mono" }
    /\ docs_folder = ApiFiles
    /\ store = {}
    /\ ollama_base_url = <<"u1">>
    /\ qa_chains = EmptyMap
    /\ vector_stores = EmptyMap
    /\ send_button = FALSE
    /\ input_box = FALSE
    /\ current_document = None
    /\ document_dropdown = << >>
    /\ ollama_model_dropdown = ""
    /\ workerQueue = << >>
    /\ pc = "idle"
    /\ cur = NoTask
    /\ guiQueue = << >>
    /\ worker_question = None
    /\ worker_document_name = None
    /\ emitted = << >>
    /\ last = TaskInfo(NoTask, FALSE, TRUE, NoArgs)
    /\ askCalls = 0
    /\ raised = ""
    /\ lastCall = NoCall
    /\ prevCall = NoPrev
    /\ evicted = EmptyMap
    /\ lastOp = NoOp
    /\ accepted = 0
    /\ queueIds = << >>
    /\ curId = 0
    /\ lastOwner = 0
    /\ thread = Started

\* An operation other than ask ends a run of consecutive ask calls: the
\* history of the calls starts anew.
Interrupted ==
    /\ lastCall' = NoCall
    /\ prevCall' = NoPrev

\* setup_vector_stores().
call_setup_vector_stores ==
    /\ \E ok \in SUBSET docs_folder :
          IF variant = "pkg"
          THEN /\ LET st == setup_vector_stores_pkg(docs_folder, store, ok)
                  IN \E left \in SUBSET save_local_leftovers(variant, docs_folder,
                                                             st, ok) :
                        store' = st \cup left
               /\ UNCHANGED vector_stores
               /\ lastOp' = SetupOp(lastOp, builds(variant, docs_folder, store, ok),
                                    AllIndexed(variant, docs_folder, store))
          ELSE \E order \in Perms(docs_folder),
                  loadok \in SUBSET { f.stem : f \in docs_folder } :
                  LET r == setup_vector_stores_mono(order, docs_folder, store,
                               ollama_base_url, { f.stem : f \in ok }, loadok)
                  IN /\ \E left \in SUBSET save_local_leftovers(variant,
                                                docs_folder, r.store, ok) :
                           store' = r.store \cup left
                     /\ vector_stores' = r.vector_stores
                     /\ lastOp' = SetupOp(lastOp, builds(variant, docs_folder, store, ok),
                                          AllIndexed(variant, docs_folder, store))
    /\ Interrupted
    /\ UNCHANGED << variant, docs_folder, ollama_base_url, qa_chains, guiVars, workerVars,
                    workerFields, thread, taskHist, evicted, orderHist >>

\* ask(question, document_name, ollama_model).
call_ask ==
    /\ \E q \in Questions, d \in Stems, m \in Models, up \in BOOLEAN, loadok \in BOOLEAN :
          LET r == IF variant = "pkg"
                   THEN ask_pkg(qa_chains, store, ollama_base_url, up, q, d, m, loadok)
                   ELSE [qa_chains |-> qa_chains] @@
                        ask_mono(vector_stores, ollama_base_url, up, q, d, m)
          IN /\ qa_chains' = r.qa_chains
             /\ lastCall' = [kind |-> "call", document_name |-> d, ollama_model |-> m,
                             url |-> ollama_base_url, built |-> r.built,
                             chain |-> r.chain, out |-> r.out,
                             dropped |-> IF d \in DOMAIN evicted THEN evicted[d]
                                         ELSE None]
             /\ prevCall' = Summary(lastCall)
             /\ evicted' = Drop(evicted, d)
    /\ lastOp' = NoOp
    /\ UNCHANGED << variant, docs_folder, store, ollama_base_url, vector_stores, guiVars,
                    workerVars, workerFields, thread, taskHist, orderHist >>

\* update_ollama_url(new_url).
call_update_ollama_url ==
    /\ \E new_url \in Urls :
          IF variant = "pkg"
          THEN LET r == update_ollama_url_pkg(qa_chains, new_url)
               IN /\ ollama_base_url' = r.ollama_base_url
                  /\ qa_chains' = r.qa_chains
          ELSE /\ ollama_base_url' = update_ollama_url_mono(new_url)
               /\ UNCHANGED qa_chains
    /\ evicted' = [d \in DOMAIN qa_chains |-> qa_chains[d].url]
    /\ lastOp' = NoOp
    /\ Interrupted
    /\ UNCHANGED << variant, docs_folder, store, vector_stores, guiVars, workerVars,
                    workerFields, thread, taskHist, orderHist >>

\* delete_document(document_name).
call_delete_document ==
    /\ \E d \in Stems, fails \in 0..2 :
          /\ IF variant = "pkg"
             THEN LET r == delete_document_pkg(docs_folder, store, qa_chains, d, fails)
                  IN /\ docs_folder' = r.docs_folder
                     /\ store' = r.store
                     /\ qa_chains' = r.qa_chains
                     /\ UNCHANGED vector_stores
                     /\ lastOp' = DeleteOp(d, r, Listed(variant, docs_folder, d))
             ELSE LET r == delete_document_mono(docs_folder, store, vector_stores, d, fails)
                  IN /\ docs_folder' = r.docs_folder
                     /\ store' = r.store
                     /\ vector_stores' = r.vector_stores
                     /\ UNCHANGED qa_chains
                     /\ lastOp' = DeleteOp(d, r, Listed(variant, docs_folder, d))
          /\ evicted' = Drop(evicted, d)
    /\ Interrupted
    /\ UNCHANGED << variant, ollama_base_url, guiVars, workerVars, workerFields, thread,
                    taskHist, orderHist >>

\* A file is put into the documents folder.
put_file ==
    /\ \E f \in ApiFiles :
          /\ f \notin docs_folder
          /\ docs_folder' = docs_folder \cup {f}
    /\ lastOp' = NoOp
    /\ Interrupted
    /\ UNCHANGED << variant, store, ollama_base_url, qa_chains, vector_stores, guiVars,
                    workerVars, workerFields, thread, taskHist, evicted, orderHist >>

NextApi ==
    \/ call_setup_vector_stores
    \/ call_ask
    \/ call_update_ollama_url
    \/ call_delete_document
    \/ put_file

SpecApi == InitApi /\ [][NextApi]_vars

-----------------------------------------------------------------------------
(* The backend's storage over a folder whose names the sanitizer maps to   *)
(* one key: setup_vector_stores, delete_document and new files             *)

\* The files of `Files` and b.txt: "b!" and "b" are distinct document names.
StoreFiles == Files \cup { [stem |-> <<"b">>, ext |-> ".txt"] }

InitStore ==
    /\ variant \in { "pkg", "mono" }
    /\ docs_folder \in SUBSET StoreFiles
    /\ store = {}
    /\ ollama_base_url = <<"u1">>
    /\ qa_chains = EmptyMap
    /\ vector_stores = EmptyMap
    /\ send_button = FALSE
    /\ input_box = FALSE
    /\ current_document = None
    /\ document_dropdown = << >>
    /\ ollama_model_dropdown = ""
    /\ workerQueue = << >>
    /\ pc = "idle"
    /\ cur = NoTask
    /\ guiQueue = << >>
    /\ worker_question = None
    /\ worker_document_name = None
    /\ emitted = << >>
    /\ last = TaskInfo(NoTask, FALSE, TRUE, NoArgs)
    /\ askCalls = 0
    /\ raised = ""
    /\ lastCall = NoCall
    /\ prevCall = NoPrev
    /\ evicted = EmptyMap
    /\ lastOp = NoOp
    /\ accepted = 0
    /\ queueIds = << >>
    /\ curId = 0
    /\ lastOwner = 0
    /\ thread = Started

\* gui.py open_selected_file: the extension of the first file that
\* os.listdir yields with the stem current_document ("" when there is none).
\* `order` is the enumeration os.listdir returns.
RECURSIVE open_selected_file(_, _)
open_selected_file(order, current) ==
    IF order = << >> THEN ""
    ELSE IF Head(order).stem = current THEN Head(order).ext
    ELSE open_selected_file(Tail(order), current)

\* An open_selected_file call with current_document = name that opened the
\* file name + ext.
OpenOp(name, ext) ==
    [NoOp EXCEPT !.kind = "open", !.document_name = name, !.file = ext]

\* open_selected_file with a document selected.
call_open_selected_file ==
    /\ \E name \in Stems, order \in Perms(docs_folder) :
          lastOp' = OpenOp(name, open_selected_file(order, name))
    /\ Interrupted
    /\ UNCHANGED << variant, backendVars, guiVars, workerVars, workerFields, thread,
                    taskHist, evicted, orderHist >>

NextStore ==
    \/ call_setup_vector_stores
    \/ call_delete_document
    \/ put_file
    \/ call_open_selected_file

SpecStore == InitStore /\ [][NextStore]_vars

-----------------------------------------------------------------------------
(* The model-listing call: GET <url>/api/tags, and its callers             *)

\* What the server does with the request: it cannot be reached, answers with
\* an error status, a body that is not JSON, a JSON object without "models",
\* a model entry without "name", or a well-formed list.
Responses == { "ConnectionError", "HTTPError", "NotJSON", "NoModelsKey", "NoName", "ok" }

\* The names in a well-formed response, in the order the server sends them.
ModelLists == { << >>, << "m1" >>, << "m2", "m1" >> }

\* The exception classes response.json() may raise on a body that is not
\* JSON: the installed requests decides (requests.exceptions.JSONDecodeError
\* derives from RequestException and from json.JSONDecodeError).
JsonErrors == { "requests.JSONDecodeError", "json.JSONDecodeError" }

\* isinstance(exc, requests.exceptions.RequestException)
IsRequestException(exc) ==
    exc \in { "ConnectionError", "HTTPError", "requests.JSONDecodeError" }

\* isinstance(exc, json.JSONDecodeError)
IsJSONDecodeError(exc) ==
    exc \in { "requests.JSONDecodeError", "json.JSONDecodeError" }

ModelRank(m) == IF m = "m1" THEN 1 ELSE 2

\* sorted(names)
sorted_models(names) ==
    LET S == { names[i] : i \in DOMAIN names }
    IN CHOOSE p \in Perms(S) :
          \A i, j \in DOMAIN p : i < j => ModelRank(p[i]) < ModelRank(p[j])

\* The try body of backend.py get_ollama_models and of _fetch_ollama_models:
\* requests.get, raise_for_status, response.json().get("models", []) and the
\* list of the entries' "name".
tags_get(response, names, jsonerr) ==
    CASE response = "ConnectionError" -> [raised |-> "ConnectionError", models |-> << >>]
      [] response = "HTTPError" -> [raised |-> "HTTPError", models |-> << >>]
      [] response = "NotJSON" -> [raised |-> jsonerr, models |-> << >>]
      [] response = "NoModelsKey" -> [raised |-> "", models |-> << >>]
      [] response = "NoName" -> [raised |-> "KeyError", models |-> << >>]
      [] OTHER -> [raised |-> "", models |-> names]

\* backend.py get_ollama_models: only RequestException is caught.
get_ollama_models_pkg(url, response, names, jsonerr) ==
    IF url = << >> THEN [raised |-> "", models |-> << >>]
    ELSE LET r == tags_get(response, names, jsonerr)
         IN IF r.raised = "" THEN [raised |-> "", models |-> sorted_models(r.models)]
            ELSE IF IsRequestException(r.raised) THEN [raised |-> "", models |-> << >>]
            ELSE r

\* documentai.py get_ollama_models: response.json()['models'], and every
\* exception is printed and raised again.
get_ollama_models_mono(response, names, jsonerr) ==
    IF response = "NoModelsKey" THEN [raised |-> "KeyError", models |-> << >>]
    ELSE tags_get(response, names, jsonerr)

\* ChatWindow.initial_ollama_model: main() passes "" when settings.json names
\* no model.
initial_ollama_model == ""

\* refresh_ollama_models: the call and everything after it is inside
\* try/except Exception; the result is the exception that leaves the handler
\* and the dropdown's current text.
refresh_ollama_models_result(v, url, current_model, response, names, jsonerr) ==
    LET r == IF v = "pkg" THEN get_ollama_models_pkg(url, response, names, jsonerr)
             ELSE get_ollama_models_mono(response, names, jsonerr)
        models == { r.models[i] : i \in DOMAIN r.models }
        items == (IF initial_ollama_model # "" /\ initial_ollama_model \notin models
                  THEN << initial_ollama_model >> ELSE << >>) \o r.models
    IN IF r.raised # ""
       THEN [raised |-> "", models |-> << >>, currentText |-> current_model]
       ELSE [raised |-> "", models |-> r.models,
             currentText |-> IF current_model \in models THEN current_model
                             ELSE IF initial_ollama_model \in models
                             THEN initial_ollama_model
                             ELSE IF items = << >> THEN "" ELSE items[1]]

\* settings.py _fetch_ollama_models: RequestException and json.JSONDecodeError
\* are caught, nothing else is.
_fetch_ollama_models(server_address, response, names, jsonerr) ==
    IF server_address = << >> THEN [raised |-> "", models |-> << >>]
    ELSE LET r == tags_get(response, names, jsonerr)
         IN IF IsRequestException(r.raised) \/ IsJSONDecodeError(r.raised)
            THEN [raised |-> "", models |-> << >>]
            ELSE r

\* A model-listing operation: what the server did, the exception that left
\* the operation ("" when none did) and the names it obtained.
ModelsOp(kind, response, r) ==
    [NoOp EXCEPT !.kind = kind, !.response = response, !.raised = r.raised,
                 !.models = r.models]

\* get_ollama_models().
call_get_ollama_models ==
    /\ \E response \in Responses, names \in ModelLists, jsonerr \in JsonErrors :
          lastOp' = ModelsOp("get_ollama_models", response,
                       IF variant = "pkg"
                       THEN get_ollama_models_pkg(ollama_base_url, response, names, jsonerr)
                       ELSE get_ollama_models_mono(response, names, jsonerr))
    /\ Interrupted
    /\ UNCHANGED << variant, backendVars, guiVars, workerVars, workerFields, thread,
                    taskHist, evicted, orderHist >>

\* The "Refresh Models" button of ChatWindow.
refresh_ollama_models ==
    /\ \E response \in Responses, names \in ModelLists, jsonerr \in JsonErrors :
          LET r == refresh_ollama_models_result(variant, ollama_base_url,
                       ollama_model_dropdown, response, names, jsonerr)
          IN /\ lastOp' = ModelsOp("refresh_ollama_models", response, r)
             /\ ollama_model_dropdown' = r.currentText
    /\ Interrupted
    /\ UNCHANGED << variant, backendVars, send_button, input_box, current_document,
                    document_dropdown, workerVars, workerFields, thread, taskHist,
                    evicted, orderHist >>

\* The "Refresh Models" button of SettingsWindow, with the text of
\* ollama_server_input.
SettingsWindow_fetch_ollama_models ==
    /\ \E server_address \in Urls \cup { << >> }, response \in Responses,
          names \in ModelLists, jsonerr \in JsonErrors :
          lastOp' = ModelsOp("_fetch_ollama_models", response,
                       _fetch_ollama_models(server_address, response, names, jsonerr))
    /\ Interrupted
    /\ UNCHANGED << variant, backendVars, guiVars, workerVars, workerFields, thread,
                    taskHist, evicted, orderHist >>

NextModels ==
    \/ call_get_ollama_models
    \/ refresh_ollama_models
    \/ SettingsWindow_fetch_ollama_models
    \/ call_update_ollama_url

SpecModels == InitApi /\ [][NextModels]_vars

-----------------------------------------------------------------------------
(* backend.ask on the worker thread, statement by statement, while the     *)
(* interactive thread calls update_ollama_url: the backend has no lock     *)

\* The call in progress is kept in lastCall: `url` is the URL that
\* setup_qa_chain read when it created the LLM.
AskCall(d, m, url, built, chain, out) ==
    [kind |-> "call", document_name |-> d, ollama_model |-> m, url |-> url,
     built |-> built, chain |-> chain, out |-> out, dropped |-> None]

InitRace ==
    /\ variant = "pkg"
    /\ docs_folder = Files
    /\ store \in SUBSET { get_vector_store_for_document(f.stem) : f \in Files }
    /\ ollama_base_url \in Urls
    /\ qa_chains = EmptyMap
    /\ vector_stores = EmptyMap
    /\ send_button = FALSE
    /\ input_box = FALSE
    /\ current_document = None
    /\ document_dropdown = << >>
    /\ ollama_model_dropdown = ""
    /\ workerQueue = << >>
    /\ pc = "idle"
    /\ cur = NoTask
    /\ guiQueue = << >>
    /\ worker_question = None
    /\ worker_document_name = None
    /\ emitted = << >>
    /\ last = TaskInfo(NoTask, FALSE, TRUE, NoArgs)
    /\ askCalls = 0
    /\ raised = ""
    /\ lastCall = NoCall
    /\ prevCall = NoPrev
    /\ evicted = EmptyMap
    /\ lastOp = NoOp
    /\ accepted = 0
    /\ queueIds = << >>
    /\ curId = 0
    /\ lastOwner = 0
    /\ thread = Started

\* ask, up to the creation of the LLM in setup_qa_chain: the test
\* `document_name not in self.qa_chains`, the read of self.ollama_base_url and
\* the test of the storage location.
ask_enter ==
    /\ pc = "idle"
    /\ \E d \in Stems, m \in Models :
          IF d \in DOMAIN qa_chains
          THEN /\ pc' = "ask_invoke"
               /\ lastCall' = AskCall(d, m, ollama_base_url, FALSE, NoChain, Raise(""))
          ELSE IF get_vector_store_for_document(d) \notin store
          THEN /\ pc' = "idle"
               /\ lastCall' = AskCall(d, m, ollama_base_url, FALSE, NoChain,
                                       Raise("ValueError"))
          ELSE /\ pc' = "setup_qa_chain"
               /\ lastCall' = AskCall(d, m, ollama_base_url, TRUE, NoChain, Raise(""))
    /\ UNCHANGED << variant, backendVars, guiVars, workerQueue, cur, guiQueue,
                    workerFields, thread, taskHist, prevCall, evicted, lastOp,
                    orderHist >>

\* The rest of setup_qa_chain: FAISS.load_local, the chain built around the
\* LLM created before, and the assignment to self.qa_chains[document_name].
ask_setup_qa_chain ==
    /\ pc = "setup_qa_chain"
    /\ \E loadok \in BOOLEAN :
          LET made == setup_qa_chain(qa_chains, store, lastCall.url,
                          lastCall.document_name, lastCall.ollama_model, loadok)
          IN /\ qa_chains' = made.qa_chains
             /\ IF made.raised = ""
                THEN /\ pc' = "ask_invoke"
                     /\ UNCHANGED lastCall
                ELSE /\ pc' = "idle"
                     /\ lastCall' = [lastCall EXCEPT !.built = FALSE,
                                                      !.out = Raise(made.raised)]
    /\ UNCHANGED << variant, docs_folder, store, ollama_base_url, vector_stores,
                    guiVars, workerQueue, cur, guiQueue, workerFields, thread,
                    taskHist, prevCall, evicted, lastOp, orderHist >>

\* The end of ask: self.qa_chains.get(document_name) and the chain's invoke.
ask_invoke ==
    /\ pc = "ask_invoke"
    /\ pc' = "idle"
    /\ \E up \in BOOLEAN, question \in Questions :
          LET d == lastCall.document_name
          IN IF d \notin DOMAIN qa_chains
             THEN lastCall' = [lastCall EXCEPT
                      !.out = Return(Text("not initialized", question, d, "", None))]
             ELSE lastCall' = [lastCall EXCEPT
                      !.chain = qa_chains[d],
                      !.out = IF up THEN Return(Invoke(qa_chains[d], question, d))
                              ELSE Raise("ProviderFailure")]
    /\ UNCHANGED << variant, backendVars, guiVars, workerQueue, cur, guiQueue,
                    workerFields, thread, taskHist, prevCall, evicted, lastOp,
                    orderHist >>

\* update_ollama_url(new_url) on the interactive thread (save_settings), at
\* any point of the ask that runs on the worker thread.
update_ollama_url_concurrent ==
    /\ \E new_url \in Urls :
          LET r == update_ollama_url_pkg(qa_chains, new_url)
          IN /\ ollama_base_url' = r.ollama_base_url
             /\ qa_chains' = r.qa_chains
    /\ UNCHANGED << variant, docs_folder, store, vector_stores, guiVars, workerVars,
                    workerFields, thread, taskHist, callHist, orderHist >>

NextRace ==
    \/ ask_enter
    \/ ask_setup_qa_chain
    \/ ask_invoke
    \/ update_ollama_url_concurrent

SpecRace == InitRace /\ [][NextRace]_vars

-----------------------------------------------------------------------------
(* Properties of the task protocol                                         *)

\* The worker is between two slot calls and the call it ran last has returned.
TaskReturned == pc = "idle" /\ last.task.kind # "none"

Positions(kind) == { i \in DOMAIN emitted : emitted[i].kind = kind }

\* C1: while a task is Running a further submission is rejected and dropped,
\* so the worker's queue of pending slot calls does not change.
C1_SubmissionRejectedWhileRunning ==
    [][pc # "idle" => workerQueue' = workerQueue]_vars

\* C2: the signals of a task that has returned are zero or more status, then
\* exactly one of result or error, then finished.
C2_EventSequence ==
    TaskReturned =>
        LET n == Len(emitted)
        IN /\ n >= 2
           /\ emitted[n].kind = "finished"
           /\ emitted[n - 1].kind \in { "result", "error" }
           /\ \A i \in 1..(n - 2) : emitted[i].kind = "status"

\* C3: a task that has returned (the runner is Idle again) has emitted exactly
\* one finished signal.
C3_ExactlyOneFinished ==
    TaskReturned => Cardinality(Positions("finished")) = 1

\* C4: once a task has emitted finished and every signal has been handled, with
\* nothing further submitted, send_button and input_box are enabled.
C4_InputsEnabledAfterFinished ==
    ( /\ TaskReturned
      /\ Positions("finished") # {}
      /\ workerQueue = << >>
      /\ guiQueue = << >> )
    => (send_button /\ input_box)

\* C5: whenever send_button and input_box are enabled, no task is Running or
\* pending on the worker.
C5_EnabledImpliesIdle ==
    (send_button /\ input_box) => (pc = "idle" /\ workerQueue = << >>)

\* C6: an Ask that has returned, whose document was indexed and whose endpoint
\* answered, made exactly one ChatbotBackend.ask call, with the submitted
\* question, document name and model, and emitted result with that answer.
C6_AskInvokedOnceWithArgs ==
    (TaskReturned /\ last.task.kind = "Ask" /\ last.indexed /\ last.up) =>
        /\ askCalls = 1
        /\ last.args = last.task
        /\ \E i \in Positions("result") :
              emitted[i].text = Text("answer", last.task.question,
                                     last.task.document_name, last.task.ollama_model,
                                     emitted[i].text.url)

\* C7: an Ask that has returned, for a document without a storage location,
\* emitted error and no result.
C7_NoIndexGivesError ==
    (TaskReturned /\ last.task.kind = "Ask" /\ ~last.indexed) =>
        (Positions("error") # {} /\ Positions("result") = {})

-----------------------------------------------------------------------------
(* Properties of the pipeline cache                                        *)

\* lastCall and prevCall are two ask calls with nothing but ask in between.
Consecutive == lastCall.kind = "call" /\ prevCall.kind = "call"

\* C8: of two consecutive ask calls for the same document under the same URL,
\* the second constructs no pipeline: it reuses the one the first left cached.
C8_SecondAskReuses ==
    ( /\ Consecutive
      /\ prevCall.document_name = lastCall.document_name
      /\ prevCall.url = lastCall.url
      /\ prevCall.cached )
    => ~lastCall.built

\* C9: after update_ollama_url no cached chain is bound to another URL than
\* ollama_base_url, every ask is answered by a chain bound to the URL current at
\* the call, and the first ask for a document whose chain the change dropped
\* constructs a new one.
C9_FreshPipelineAfterUrlChange ==
    /\ \A d \in DOMAIN qa_chains : qa_chains[d].url = ollama_base_url
    /\ (lastCall.kind = "call" /\ lastCall.chain # NoChain)
          => lastCall.chain.url = lastCall.url
    /\ (lastCall.kind = "call" /\ lastCall.dropped # None /\ lastCall.chain # NoChain)
          => lastCall.built

\* An ask, answered by a newly constructed chain bound to the new URL, for a
\* document whose chain was bound to another URL before the change.
C9_Witness ==
    /\ lastCall.kind = "call"
    /\ Answered(lastCall)
    /\ lastCall.dropped # None
    /\ lastCall.dropped # lastCall.url
    /\ lastCall.built
    /\ lastCall.chain.url = lastCall.url

\* C10: of two consecutive answered ask calls for one document under one URL
\* with different models, the second is answered by its own model, and the
\* document's cached chain is bound to that model afterwards.
C10_SecondModelReplaces ==
    ( /\ Consecutive
      /\ prevCall.document_name = lastCall.document_name
      /\ prevCall.url = lastCall.url
      /\ prevCall.ollama_model # lastCall.ollama_model
      /\ prevCall.answered
      /\ Answered(lastCall) )
    => /\ lastCall.out.text.model = lastCall.ollama_model
       /\ lastCall.document_name \in DOMAIN qa_chains
             => qa_chains[lastCall.document_name].model = lastCall.ollama_model

-----------------------------------------------------------------------------
(* Properties of the backend's operations                                  *)

\* The exceptions with which the construction of a chain fails.
ConstructionFailures == { "ValueError", "LoadError" }

\* C11: an ask whose chain construction fails raises and leaves qa_chains as it
\* was, and an ask for an uncached document without a storage location fails
\* with ValueError (ai_chatbot_app).
\* (Every step that leaves lastCall a call is a step of ask.)
C11_FailedConstructionLeavesCache ==
    [][lastCall'.kind = "call" =>
         /\ (lastCall'.out.kind = "raise" /\ lastCall'.out.exc \in ConstructionFailures)
               => qa_chains' = qa_chains
         /\ ( /\ variant = "pkg"
              /\ lastCall'.document_name \notin DOMAIN qa_chains
              /\ get_vector_store_for_document(lastCall'.document_name) \notin store )
               => (lastCall'.out.kind = "raise" /\ lastCall'.out.exc = "ValueError")]_vars

\* A failed construction for one document while another document is cached.
C11_Witness ==
    /\ lastCall.kind = "call"
    /\ lastCall.out.kind = "raise"
    /\ lastCall.out.exc \in ConstructionFailures
    /\ lastCall.document_name \notin DOMAIN qa_chains
    /\ DOMAIN qa_chains # {}

\* C12: after a delete_document(name) that returned, for a name that was
\* listed, name has no storage location, no source file and no cached chain,
\* and get_available_documents() does not contain it.
C12_DeletePostconditions ==
    (lastOp.kind = "delete" /\ lastOp.raised = "" /\ lastOp.listed) =>
        LET name == lastOp.document_name
        IN /\ StorageLocation(variant, name) \notin store
           /\ \A f \in docs_folder : f.stem # name
           /\ name \notin DOMAIN qa_chains
           /\ ~Listed(variant, docs_folder, name)

\* The worker's step is the return of setup_vector_stores without an exception:
\* the second status is emitted, no error.
SetupSucceeds ==
    /\ pc = "setup_call"
    /\ pc' = "setup_finished"
    /\ emitted'[Len(emitted')] = StatusReady

\* C13: when a Setup task's setup_vector_stores returns without an error event,
\* every name that get_available_documents() returns has a storage location.
C13_SetupIndexesEveryListed ==
    [][SetupSucceeds =>
         \A f \in docs_folder' :
            Listed(variant, docs_folder', f.stem)
               => StorageLocation(variant, f.stem) \in store']_vars

-----------------------------------------------------------------------------
(* Properties of the two threads                                           *)

\* The step is one of the worker thread: every step of a worker slot moves pc,
\* no handler of the interactive thread does.
WorkerStep == pc' # pc

\* C15: vector_stores and qa_chains are written by the worker thread only.
C15_SingleWriter ==
    [][(vector_stores' # vector_stores \/ qa_chains' # qa_chains) => WorkerStep]_vars

\* The worker is inside backend.setup_vector_stores() or inside the backend
\* call of ask_question.
WorkerInBackend == pc \in { "setup_call", "ask_call" }

\* C16: the documents folder and the storage are not changed by the
\* interactive thread (upload_document, delete_document) while the worker is
\* inside a setup_vector_stores pass or an Ask.
C16_StorageNotSharedInTime ==
    [][((docs_folder' # docs_folder \/ store' # store) /\ ~WorkerStep)
          => ~WorkerInBackend]_vars

\* C17: one task runs at a time.  The slot the worker is in is the one of the
\* task it took up; a task is taken up only when none is running; and a running
\* task stays the worker's task until its slot returns.
C17_OneTaskRunning ==
    [][ /\ (pc' \in { "setup_call", "setup_finished" }) => cur'.kind = "Setup"
        /\ (pc' = "ask_call") => cur'.kind = "Ask"
        /\ (cur' # cur /\ cur' # NoTask) => (pc = "idle" /\ cur = NoTask)
        /\ (pc # "idle" /\ cur' # cur) => (pc' = "idle" /\ cur' = NoTask) ]_vars

\* An Ask is queued behind a Setup that is running.
C17_Witness ==
    /\ pc \in { "setup_call", "setup_finished" }
    /\ cur.kind = "Setup"
    /\ workerQueue # << >>
    /\ Head(workerQueue).kind = "Ask"

-----------------------------------------------------------------------------
(* Properties of the order of the signals                                  *)

\* C18: a task emits nothing after its finished signal: finished, where the
\* task has emitted it, is the last of its signals.
C18_NothingAfterFinished ==
    \A i \in Positions("finished") : i = Len(emitted)

\* A Setup that has returned, finished emitted after its status signals.
C18_Witness ==
    /\ TaskReturned
    /\ last.task.kind = "Setup"
    /\ Len(emitted) >= 3
    /\ emitted[Len(emitted)] = FinishedEvent

\* C19: signals are emitted in the order in which their tasks were submitted:
\* the submission number of the emitting task never goes down from one signal
\* to the next.
C19_EventsInSubmissionOrder ==
    [][lastOwner' >= lastOwner]_vars

\* A task has emitted its signals while two later submissions wait in the
\* worker's queue, in the order of their submission.
C19_Witness ==
    /\ pc = "setup_finished"
    /\ lastOwner = curId
    /\ Len(workerQueue) = 2
    /\ queueIds = << curId + 1, curId + 2 >>

\* C20: an exception raised inside a worker slot is caught there and emitted
\* as one error signal carrying it, and error is emitted for nothing else.
C20_ExceptionBecomesOneError ==
    /\ raised # "" =>
          /\ Cardinality(Positions("error")) = 1
          /\ \A i \in Positions("error") : emitted[i] = ErrorEvent(raised)
    /\ raised = "" => Positions("error") = {}

\* An Ask whose backend call raised has returned, its error signal emitted.
C20_Witness ==
    /\ TaskReturned
    /\ raised # ""
    /\ Positions("error") # {}
    /\ last.task.kind = "Ask"

-----------------------------------------------------------------------------
(* Properties of the failures                                              *)

\* C21: a setup_vector_stores pass in which the build of one document fails
\* returns, and has built every document whose own build succeeds.
C21_FailureDoesNotAbortPass ==
    lastOp.kind = "setup" => (lastOp.raised = "" /\ lastOp.built \subseteq store)

\* A pass that built one document and left another, whose build failed,
\* without a storage location.
C21_Witness ==
    /\ lastOp.kind = "setup"
    /\ lastOp.built # {}
    /\ \E f \in docs_folder :
          f.ext \in Supported /\ StorageLocation(variant, f.stem) \notin store

\* The documents of the folder that have no storage location.
Unindexed(v, folder, st) ==
    { f \in folder : f.ext \in Supported /\ StorageLocation(v, f.stem) \notin st }

\* C22: a Setup whose setup_vector_stores left every document of the folder
\* without a storage location emits error; one that left some but not all of
\* them unindexed, and raised nothing, emits no error.
C22_ErrorIffEveryDocumentFails ==
    [][(pc = "setup_call" /\ pc' = "setup_finished") =>
         LET docs == { f \in docs_folder' : f.ext \in Supported }
             failed == Unindexed(variant, docs_folder', store')
         IN /\ (docs # {} /\ failed = docs)
                  => emitted'[Len(emitted')].kind = "error"
            /\ (failed # {} /\ failed # docs /\ raised' = "")
                  => emitted'[Len(emitted')].kind # "error"]_vars

\* C23: a delete_document whose removal of the storage location failed made
\* exactly two rmtree attempts: the first and one retry.
C23_RemovalRetriedOnce ==
    (lastOp.kind = "delete" /\ lastOp.failed >= 1) => lastOp.attempts = 2

\* C24: a delete_document whose retry failed as well raised to its caller, and
\* no source file of the name is left.
C24_FailedRetryReported ==
    (lastOp.kind = "delete" /\ lastOp.failed = 2) =>
        /\ lastOp.raised # ""
        /\ \A f \in docs_folder : f.stem # lastOp.document_name

\* C25: an ask call proceeds to retrieval and generation (a chain is invoked)
\* exactly when the storage location of its document exists at the call; the
\* only other refusal is a location that exists and fails to load.
C25_IndexedIffLocationExists ==
    [][lastCall'.kind = "call" =>
         LET exists == StorageLocation(variant, lastCall'.document_name) \in store
             proceeds == lastCall'.chain # NoChain
         IN /\ proceeds => exists
            /\ (exists /\ lastCall'.out.exc # "LoadError") => proceeds]_vars

\* C26: the worker thread finishes only when no slot call is in progress, and
\* the task that was running when closeEvent called quit has emitted finished
\* by the time its slot returns.
C26_ShutdownWaitsForFinished ==
    [][/\ (thread.state = "quit" /\ thread'.state = "finished") => pc = "idle"
       /\ (thread.state = "quit" /\ thread.task = curId /\ pc # "idle" /\ pc' = "idle")
             => (emitted' # << >> /\ emitted'[Len(emitted')] = FinishedEvent)]_vars

\* C27: no storage location on disk is the location of two distinct document
\* names of the folder, so no document is indexed by another document's index.
C27_OneLocationPerDocument ==
    \A f, g \in { h \in docs_folder : h.ext \in Supported } :
        (f.stem # g.stem /\ StorageLocation(variant, f.stem) \in store)
            => StorageLocation(variant, f.stem) # StorageLocation(variant, g.stem)

\* C28: every storage location on disk is the sanitized form of a document
\* name: build, existence check and delete use the sanitized name as key.
C28_LocationsSanitized ==
    \A location \in store :
        \E f \in ApiFiles \cup StoreFiles : location = _sanitize_filename(f.stem)

\* C29: the file open_selected_file opens for a name is the file that the
\* fixed extension priority order (the one delete_document and the loader
\* follow) selects for that name.
C29_OpenFollowsPriority ==
    (lastOp.kind = "open" /\ lastOp.file # "")
        => lastOp.file = FirstExt(docs_folder, lastOp.document_name)

\* C30: the list get_available_documents returned to the last
\* populate_documents_dropdown, shown as the items of document_dropdown, is
\* in strictly ascending order: sorted, and no name twice.
C30_ListingSortedUnique ==
    \A i, j \in DOMAIN document_dropdown :
        i < j => Less(document_dropdown[i], document_dropdown[j])

\* C31: whatever the server does, no exception leaves
\* ChatWindow.refresh_ollama_models or SettingsWindow._fetch_ollama_models.
C31_ListingFailureNeverCrashesCaller ==
    lastOp.kind \in { "refresh_ollama_models", "_fetch_ollama_models" }
        => lastOp.raised = ""

\* C32: the QA chain an ask call invokes has retrieval width 3.
C32_RetrievalWidthThree ==
    (lastCall.kind = "call" /\ lastCall.chain # NoChain) => lastCall.chain.k = 3

\* C34: every chain in qa_chains was constructed with the URL that is now
\* ollama_base_url.
C34_ChainsBoundToCurrentUrl ==
    \A d \in DOMAIN qa_chains : qa_chains[d].url = ollama_base_url

\* C35: when delete_document(name) has returned, name has no cached chain, no
\* in-memory handle and no storage location.
C35_DeletedLeavesNothing ==
    (lastOp.kind = "delete" /\ lastOp.raised = "") =>
        /\ lastOp.document_name \notin DOMAIN qa_chains
        /\ lastOp.document_name \notin DOMAIN vector_stores
        /\ StorageLocation(variant, lastOp.document_name) \notin store

\* What belongs to the document `name`: its source files, whether its storage
\* location exists, and its cache entries.
Belongings(name, folder, st, chains, vs) ==
    [files |-> { f \in folder : f.stem = name },
     location |-> StorageLocation(variant, name) \in st,
     chain |-> IF name \in DOMAIN chains THEN chains[name] ELSE NoChain,
     handle |-> name \in DOMAIN vs]

\* C36: a delete_document(name) call leaves what belongs to every other
\* document name as it was.
C36_DeleteTouchesOnlyItsDocument ==
    [][lastOp'.kind = "delete" =>
         \A f \in StoreFiles \cup ApiFiles :
             f.stem # lastOp'.document_name =>
                 Belongings(f.stem, docs_folder', store', qa_chains', vector_stores')
                   = Belongings(f.stem, docs_folder, store, qa_chains, vector_stores)]_vars

\* C37: a setup_vector_stores pass creates a storage location only for a
\* document it built: a document whose build failed has no location after the
\* pass, and the next pass attempts it again.
C37_FailedBuildLeavesNoLocation ==
    [][lastOp'.kind = "setup" => (store' \ store) \subseteq lastOp'.built]_vars

====
